---- MODULE Spec2Model ----
(***************************************************************************)
(* Model of the task organizer's synchronization hook (useTodos), its      *)
(* Remote Adapter (services/api.js) and its Storage Adapter                *)
(* (services/storage.js).                                                  *)
(* The TodoInput and TodoItem components are modelled on their own, with   *)
(* the calls of their onAdd / onUpdate props recorded.                     *)
(*                                                                         *)
(* React state is modelled by two copies of each value the callbacks read: *)
(* provider / allTasks are the state after every queued update has been    *)
(* applied (what a functional updater receives as prev), rProvider /       *)
(* rAllTasks are the values captured by the callbacks of the last render.  *)
(* Titles are sequences of one-character strings, ids are strings.         *)
(***************************************************************************)
EXTENDS Integers, Sequences, FiniteSets, TLC

VARIABLES
    provider,        \* useState provider: "api" | "local"
    allTasks,        \* useState allTasks: the canonical list
    rProvider,       \* provider as captured by the callbacks of the last render
    rAllTasks,       \* allTasks as captured by the callbacks of the last render
    filter,          \* useState filter
    search,          \* useState search (debounced value used by the derived view)
    isMounted,       \* the init effect's isMounted flag
    initPc,          \* position of init(): "listing" (awaiting api.listTodos) | "done"
    inflight,        \* mutations awaiting their remote call
    stored,          \* the localStorage record todo_app_todos
    storageOk,       \* whether localStorage is usable (hasLocalStorage)
    genC,            \* generateId._c
    nOps,            \* number of hook operations invoked so far
    last,            \* the last step of the synchronization core (history)
    hist,            \* ids removed by delete, and the running pair of toggles (history)
    searchImmediate, \* useState searchImmediate: the echo returned as "search"
    timers,          \* pending setTimeout callbacks of useDebouncedCallback
    timerRef,        \* useDebouncedCallback's timerRef.current (0: null)
    dbc,             \* the running burst of setSearch calls (history)
    ret,             \* outcome of the last direct call of an adapter function (history)
    wire,            \* number of requests the Remote Adapter handed to fetch
    issued,          \* identifiers generateId has returned (history)
    inputTitle,      \* TodoInput's useState title: the text in the input
    onAddCalls,      \* the titles TodoInput has passed to onAdd (history)
    inputLast,       \* the last event of TodoInput (history)
    itemTitle,       \* the title of the task a TodoItem row shows (item.title)
    editing,         \* TodoItem's useState editing
    draft,           \* TodoItem's useState draft
    onUpdateCalls,   \* the titles TodoItem has passed to onUpdate (history)
    itemLast         \* the last event of the TodoItem row (history)

\* state of the search box and its debounce timer
viewVars == <<searchImmediate, timers, timerRef, dbc>>

\* bookkeeping of direct calls of the adapters
unitVars == <<ret, wire, issued>>

\* state of the TodoInput component
inputVars == <<inputTitle, onAddCalls, inputLast>>

\* state of one TodoItem row
itemVars == <<itemTitle, editing, draft, onUpdateCalls, itemLast>>

vars == <<provider, allTasks, rProvider, rAllTasks, filter, search, isMounted,
          initPc, inflight, stored, storageOk, genC, nOps, last, hist,
          searchImmediate, timers, timerRef, dbc, ret, wire, issued,
          inputTitle, onAddCalls, inputLast,
          itemTitle, editing, draft, onUpdateCalls, itemLast>>

----------------------------------------------------------------------------
(* Bounds *)

MaxOps == 2

\* setSearch calls per session
MaxSearch == 2

\* direct calls of the Remote Adapter's functions
MaxWire == 2

\* generateId calls followed in one session
MaxIssued == 4
MaxSubmits == 2
MaxUpdates == 2

----------------------------------------------------------------------------
(* JavaScript values *)

NoId == ""
JsNull == [jsnull |-> TRUE]
JsArray(s) == [items |-> s]
IsArray(v) == "items" \in DOMAIN v
JsString(chars) == [jsstring |-> chars]
IsObject(v) == ("jsnull" \notin DOMAIN v) /\ ("jsstring" \notin DOMAIN v) /\ ~IsArray(v)

Whitespace == {" "}

RECURSIVE TrimLeft(_)
TrimLeft(s) ==
    IF s = <<>> THEN <<>>
    ELSE IF Head(s) \in Whitespace THEN TrimLeft(Tail(s)) ELSE s

RECURSIVE TrimRight(_)
TrimRight(s) ==
    IF s = <<>> THEN <<>>
    ELSE IF s[Len(s)] \in Whitespace THEN TrimRight(SubSeq(s, 1, Len(s) - 1)) ELSE s

\* mutant: the title is used as typed
TrimNothing(s) == s

\* String.prototype.trim
Trim(s) == TrimRight(TrimLeft(s))

\* { ...a, ...b }
Spread(a, b) ==
    [f \in (DOMAIN a) \cup (DOMAIN b) |-> IF f \in DOMAIN b THEN b[f] ELSE a[f]]

IdsOf(s) == {s[i].id : i \in 1..Len(s)}

----------------------------------------------------------------------------
(* Storage Adapter: services/storage.js *)

RawAbsent == [raw |-> "absent"]
RawGarbage == [raw |-> "garbage"]
RawJson(v) == [raw |-> "json", val |-> v]

\* a value JSON cannot express; extension fields hold boxed values
JsUndefined == [jsundefined |-> TRUE]
CoreFields == {"id", "_id", "title", "completed"}

\* JSON.stringify of one array element: members whose value is undefined are left out
StringifyItem(item) ==
    IF ~IsObject(item) THEN item
    ELSE LET kept == {f \in DOMAIN item : f \in CoreFields \/ item[f] # JsUndefined}
         IN  [f \in kept |-> item[f]]

\* mutant: every array is written as the empty array
safeJsonStringifyEmpty(value) == RawJson(JsArray(<<>>))

\* JSON.stringify(value ?? []) of an array
safeJsonStringify(value) ==
    RawJson(JsArray([i \in 1..Len(value) |-> StringifyItem(value[i])]))

safeJsonParse(raw, fallback) ==
    IF raw.raw # "json" THEN fallback
    ELSE IF IsArray(raw.val) THEN raw.val.items ELSE fallback

\* outcome of a block of code: a returned value or a raised exception
Returns(v) == [raised |-> FALSE, value |-> v]
Raises == [raised |-> TRUE]

\* mutant: the exception leaves the function
CaughtNothing(outcome, fallback) == outcome

\* try { ... } catch (_e) { return fallback }
Caught(outcome, fallback) == IF outcome.raised THEN Returns(fallback) ELSE outcome

\* loadTodos: ok is what hasLocalStorage() finds, fault whether getItem throws
tryLoadTodos(st, ok, fault) ==
    Caught(IF ~ok THEN Returns(<<>>)
           ELSE IF fault THEN Raises
           ELSE Returns(safeJsonParse(st, <<>>)),
           <<>>)

\* saveTodos: the record afterwards; fault is whether setItem throws
trySaveTodos(st, ok, fault, todos) ==
    Caught(IF ~ok THEN Returns(st)
           ELSE IF fault THEN Raises
           ELSE Returns(safeJsonStringify(IF IsArray(todos) THEN todos.items ELSE <<>>)),
           st)

loadTodos(st, ok) == tryLoadTodos(st, ok, FALSE).value

saveTodos(st, ok, todos) == trySaveTodos(st, ok, FALSE, JsArray(todos)).value

WrapMod == 65535

Digits == <<"0", "1", "2", "3", "4", "5", "6", "7", "8", "9", "a", "b", "c",
            "d", "e", "f", "g", "h", "i", "j", "k", "l", "m", "n", "o", "p",
            "q", "r", "s", "t", "u", "v", "w", "x", "y", "z">>

\* Number.prototype.toString(36)
RECURSIVE Base36(_)
Base36(n) ==
    IF n < 36 THEN Digits[n + 1] ELSE Base36(n \div 36) \o Digits[(n % 36) + 1]

\* (++generateId._c % 0xffff), with the counter already incremented to c
counterPart(c) == c % WrapMod

\* mutant: the identifier is built from the time and the random part only
generateIdNoCounter(ts, rand, c) == "todo_app_" \o ts \o "_" \o rand \o "_"

\* generateId with the counter already incremented to c
generateId(ts, rand, c) ==
    "todo_app_" \o ts \o "_" \o rand \o "_" \o Base36(counterPart(c))

Clock == "t0"
Rand == "r0"

----------------------------------------------------------------------------
(* useTodos.js helpers *)

\* the delay passed to useDebouncedCallback, in milliseconds
Wait == 250

\* mutant: the pending timer is left running
clearTimerNothing(ts, ref) == ts

\* clearTimer: clearTimeout(timerRef.current)
clearTimer(ts, ref) == {t \in ts : t.id # ref}

\* mutant: a state container that outlives the component
SetStateAlways(mounted, cur, new) == new

\* a useState setter: React drops an update dispatched to a component that
\* has been unmounted
SetState(mounted, cur, new) == IF mounted THEN new ELSE cur

\* normalizeTodo applied to an object (the caller filters non-objects out);
\* c is generateId._c before the call
normalizeTodo(t, c) ==
    LET needsId == ("id" \notin DOMAIN t) /\ ("_id" \notin DOMAIN t)
        id == IF "id" \in DOMAIN t THEN t.id
              ELSE IF "_id" \in DOMAIN t THEN t._id
              ELSE generateId(Clock, Rand, c + 1)
        defaults == [id |-> id, title |-> <<>>, completed |-> FALSE]
    IN  [todo |-> Spread(defaults, t), c |-> IF needsId THEN c + 1 ELSE c]

\* list.map(normalizeTodo).filter(Boolean), threading generateId._c
RECURSIVE NormalizeList(_, _)
NormalizeList(list, c) ==
    IF list = <<>> THEN [tasks |-> <<>>, c |-> c]
    ELSE IF ~IsObject(Head(list)) THEN NormalizeList(Tail(list), c)
    ELSE LET h == normalizeTodo(Head(list), c)
             r == NormalizeList(Tail(list), h.c)
         IN  [tasks |-> <<h.todo>> \o r.tasks, c |-> r.c]

\* mutant: every failure counts as a network/server failure
isAnyError(err) == TRUE

\* mutant: only a status code is looked at
isServerErrorOnly(err) == err.hasStatus /\ err.status >= 500

isNetworkOrServerError(err) ==
    err.isNetworkOrServerError \/ (err.hasStatus /\ err.status >= 500)

LowerChar(ch) == IF ch = "A" THEN "a" ELSE IF ch = "B" THEN "b" ELSE ch

\* String.prototype.toLowerCase
toLowerCase(s) == [i \in 1..Len(s) |-> LowerChar(s[i])]

\* mutant: the title is compared as stored, without lower-casing it
filterAndSearchCaseSensitive(tasks, f, q) ==
    LET t == toLowerCase(Trim(q))
        matchesFilter(x) == IF f = "all" THEN TRUE
                            ELSE IF f = "active" THEN ~x.completed
                            ELSE IF f = "completed" THEN x.completed
                            ELSE TRUE
        matchesSearch(x) ==
            IF Len(t) > 0
            THEN \E i \in 1..(Len(x.title) - Len(t) + 1) :
                     SubSeq(x.title, i, i + Len(t) - 1) = t
            ELSE TRUE
    IN  SelectSeq(tasks, LAMBDA x : matchesFilter(x) /\ matchesSearch(x))

filterAndSearch(tasks, f, q) ==
    LET t == toLowerCase(Trim(q))
        matchesFilter(x) == IF f = "all" THEN TRUE
                            ELSE IF f = "active" THEN ~x.completed
                            ELSE IF f = "completed" THEN x.completed
                            ELSE TRUE
        matchesSearch(x) ==
            IF Len(t) > 0
            THEN \E i \in 1..(Len(x.title) - Len(t) + 1) :
                     SubSeq(toLowerCase(x.title), i, i + Len(t) - 1) = t
            ELSE TRUE
    IN  SelectSeq(tasks, LAMBDA x : matchesFilter(x) /\ matchesSearch(x))

----------------------------------------------------------------------------
(* Remote Adapter: services/api.js *)

NetworkFailure == [kind |-> "network"]
HttpResponse(status, data) == [kind |-> "http", status |-> status, body |-> data]

\* throwForResponse: the error raised for a response that is not ok
throwForResponse(resp) ==
    [ok |-> FALSE, hasStatus |-> TRUE, status |-> resp.status,
     isNetworkOrServerError |-> (resp.status >= 500 /\ resp.status <= 599)]

\* requestJson applied to what fetch produced: a result or the error thrown
requestJson(o) ==
    IF o.kind = "network"
    THEN [ok |-> FALSE, hasStatus |-> FALSE, status |-> 0, isNetworkOrServerError |-> TRUE]
    ELSE IF ~(o.status >= 200 /\ o.status <= 299)
    THEN throwForResponse(o)
    ELSE [ok |-> TRUE, data |-> o.body]

\* mutant: the identifier is not looked at
MissingIdNever(id) == FALSE

\* if (!id) in updateTodo and deleteTodo
MissingId(id) == id = NoId

\* api.updateTodo / api.deleteTodo: the result or the error thrown, and whether
\* fetch was called
apiByIdTodo(id, o) ==
    IF MissingId(id)
    THEN [ok |-> FALSE, hasStatus |-> TRUE, status |-> 400,
          isNetworkOrServerError |-> FALSE, sent |-> FALSE]
    ELSE Spread(requestJson(o), [sent |-> TRUE])

\* what the server may answer
FailureStatuses == {404, 500, 600}
Failures == {NetworkFailure} \cup {HttpResponse(st, JsNull) : st \in FailureStatuses}

ServerId(n) == "srv_" \o ToString(n)

\* answers to POST /todos for the create issued by operation n with the given title
CreateAnswers(n, title) ==
    Failures \cup
    { HttpResponse(201, [id |-> ServerId(n), title |-> title, completed |-> FALSE]),
      HttpResponse(201, JsNull) }

\* answers to PATCH / DELETE /todos/:id
PlainAnswers == Failures \cup {HttpResponse(200, JsNull)}

ServerList ==
    << [id |-> "srv_a", title |-> <<"a">>, completed |-> TRUE],
       [id |-> "srv_b", title |-> <<" ", "B">>, completed |-> FALSE],
       [id |-> "srv_c", title |-> <<"a", "b">>, completed |-> TRUE] >>

\* a list whose only task carries an empty id, which normalizeTodo keeps
ServerListEmptyId == << [id |-> NoId, title |-> <<"a">>, completed |-> TRUE] >>

\* answers to GET /todos
ListAnswers ==
    Failures \cup
    { HttpResponse(200, JsArray(<<>>)), HttpResponse(200, JsArray(ServerList)),
      HttpResponse(200, JsArray(ServerListEmptyId)), HttpResponse(200, JsNull) }

\* what localStorage may hold when the session starts
StoredList ==
    << [id |-> "k1", title |-> <<"a">>, completed |-> FALSE],
       JsNull,
       [title |-> <<"b">>, completed |-> TRUE] >>

StoredChoices == {RawAbsent, RawGarbage, RawJson(JsNull), RawJson(JsArray(StoredList))}

\* storage at the start of a session: its record and whether it is usable
StorageAtStart ==
    { <<RawAbsent, TRUE>>, <<RawJson(JsArray(StoredList)), TRUE>>,
      <<RawJson(JsArray(StoredList)), FALSE>> }

----------------------------------------------------------------------------
(* History records *)

NoErr == [ok |-> TRUE]

\* mutant: the catch branch throws again what is not a network/server error
CatchRethrowsRejected(err) == isNetworkOrServerError(err)

\* withOptimistic's catch (err) { ... }: whether the error stops here; the
\* branch has no throw
CatchAll(err) == TRUE

\* init()'s catch (err) { ... }: "no rethrow: UI should continue functioning"
InitCatches(err) == TRUE

\* Promise.allSettled: the outcome of a member never rejects the whole
AllSettled(err) == TRUE

\* the state of the promise an operation returned to its caller, after a step
\* that left the remote calls `calls` outstanding and met the outcome err
PromiseAfter(op, err, calls) ==
    IF calls # {} THEN "pending"
    ELSE IF err.ok THEN "resolved"
    ELSE IF op = "clear" THEN (IF AllSettled(err) THEN "resolved" ELSE "rejected")
    ELSE IF op = "list" THEN (IF InitCatches(err) THEN "resolved" ELSE "rejected")
    ELSE IF CatchAll(err) THEN "resolved" ELSE "rejected"

Ev(kind, op, n, id, arg, snapshot, err, calls, again) ==
    [kind |-> kind, op |-> op, n |-> n, id |-> id, arg |-> arg,
     before |-> allTasks, rBefore |-> rAllTasks, provBefore |-> provider,
     rProvBefore |-> rProvider, cBefore |-> genC,
     snapshot |-> snapshot, err |-> err, calls |-> calls, again |-> again,
     promise |-> PromiseAfter(op, err, calls)]

MountEv(mode, tasks, calls) ==
    [kind |-> "mount", op |-> "init", n |-> 0, id |-> NoId, arg |-> <<>>,
     before |-> tasks, rBefore |-> tasks, provBefore |-> mode, rProvBefore |-> mode,
     cBefore |-> 0, snapshot |-> <<>>, err |-> NoErr, calls |-> calls, again |-> FALSE,
     promise |-> PromiseAfter("list", NoErr, calls)]

NoTog == [id |-> NoId, orig |-> FALSE, k |-> 0]

----------------------------------------------------------------------------
(* Initial state: after the first render and its effects *)

\* getDataMode() === "api" ? "api" : "local"
Modes == {"api", "local"}

NoBurst == [kind |-> "none", calls |-> 0, burst |-> 0, lastVal |-> <<>>, since |-> 0,
            changes |-> 0, changed |-> FALSE, searchBefore |-> <<>>]

NoRet == [op |-> "none"]

\* the search box is empty and no timer is pending
InitView ==
    /\ searchImmediate = <<>>
    /\ timers = {}
    /\ timerRef = 0
    /\ dbc = NoBurst

\* no adapter function has been called directly
InitUnits ==
    /\ ret = NoRet
    /\ wire = 0
    /\ issued = <<>>

NoInputEv == [kind |-> "none", before |-> <<>>, submitted |-> FALSE]

\* TodoInput after its first render: useState("") and nothing submitted
InitInput ==
    /\ inputTitle = <<>>
    /\ onAddCalls = <<>>
    /\ inputLast = NoInputEv

ItemEv(kind, called) ==
    [kind |-> kind, title |-> itemTitle, draftBefore |-> draft,
     editingBefore |-> editing, called |-> called]

\* a TodoItem row after its first render, for a task titled "a":
\* useState(false), useState(item.title || "")
InitItem ==
    /\ itemTitle = <<"a">>
    /\ editing = FALSE
    /\ draft = <<"a">>
    /\ onUpdateCalls = <<>>
    /\ itemLast = [kind |-> "none", title |-> <<"a">>, draftBefore |-> <<"a">>,
                   editingBefore |-> FALSE, called |-> FALSE]

Init ==
    \E mode \in Modes, sa \in StorageAtStart :
        LET st == sa[1]
            ok == sa[2]
            first == NormalizeList(loadTodos(st, ok), 0)
            second == NormalizeList(loadTodos(st, ok), first.c)
        IN  /\ InitView
            /\ InitUnits
            /\ InitInput
            /\ InitItem
            /\ provider = mode
            /\ rProvider = mode
            /\ storageOk = ok
            /\ filter = "all"
            /\ search = <<>>
            /\ isMounted = TRUE
            /\ inflight = {}
            /\ nOps = 0
            /\ hist = [removed |-> {}, tog |-> NoTog]
            /\ IF mode = "local"
               THEN /\ rAllTasks = first.tasks
                    /\ allTasks = second.tasks
                    /\ genC = second.c
                    /\ initPc = "done"
                    /\ stored = saveTodos(st, ok, first.tasks)
                    /\ last = MountEv(mode, first.tasks, {})
               ELSE /\ rAllTasks = <<>>
                    /\ allTasks = <<>>
                    /\ genC = 0
                    /\ initPc = "listing"
                    /\ stored = st
                    /\ last = MountEv(mode, <<>>, {[op |-> "list", id |-> NoId]})

----------------------------------------------------------------------------
(* The optimistic protocol: withOptimistic and the five mutations *)

\* mutant: the remote commit is attempted in every mode
CommitsAlways(p) == TRUE

\* withOptimistic's test of the provider captured by the callback
CommitsRemotely(p) == p # "local"

\* mutant: the failed mutation's optimistic change is kept
RollbackKeepsPrev(prev, snapshot) == prev

\* the rollback installed by the catch branch: rollbackOnError(prev, snapshot)
Rollback(prev, snapshot) == snapshot

\* mutant: a failure that is not transient switches the mode to remote
ProviderAfterFailureRepromotes(err, p) ==
    IF err.isNetworkOrServerError \/ (err.hasStatus /\ err.status >= 500)
    THEN "local" ELSE "api"

\* mutant: every failure, rejected ones included, switches the mode to local
ProviderAfterFailureAlwaysLocal(err, p) == "local"

\* the catch branch's demotion: setProvider("local") on a network/server error
ProviderAfterFailure(err, p) == IF isNetworkOrServerError(err) THEN "local" ELSE p

\* mutant: the new task replaces the list
ApplyAddReplaces(prev, newItem) == <<newItem>>

\* mutant: the new task is put at the end
ApplyAddAppends(prev, newItem) == prev \o <<newItem>>

ApplyAdd(prev, newItem) == <<newItem>> \o prev

ApplyToggle(prev, id, nextCompleted) ==
    [i \in 1..Len(prev) |->
        IF prev[i].id = id THEN [prev[i] EXCEPT !.completed = nextCompleted] ELSE prev[i]]

ApplyUpdate(prev, id, safeUpdates) ==
    [i \in 1..Len(prev) |->
        IF prev[i].id = id THEN Spread(prev[i], safeUpdates) ELSE prev[i]]

\* mutant: the filter keeps the task instead of dropping it
ApplyDeleteInverted(prev, id) == SelectSeq(prev, LAMBDA t : t.id = id)

ApplyDelete(prev, id) == SelectSeq(prev, LAMBDA t : t.id # id)

\* mutant: the filter keeps the completed tasks
ApplyClearInverted(prev) == SelectSeq(prev, LAMBDA t : t.completed)

ApplyClear(prev) == SelectSeq(prev, LAMBDA t : ~t.completed)

\* mutant: the server's version is added and the placeholder stays
ApplyCreatedKeepsBoth(prev, tempId, normalized) == <<normalized>> \o prev

\* the placeholder is replaced by the server's version, matched by id
ApplyCreated(prev, tempId, normalized) ==
    [i \in 1..Len(prev) |-> IF prev[i].id = tempId THEN normalized ELSE prev[i]]

Find(list, id) == SelectSeq(list, LAMBDA t : t.id = id)

CompletedIds(list) == {list[i].id : i \in {j \in 1..Len(list) : list[j].completed}}

Mut(op, id, arg, pending, again) ==
    [n |-> nOps + 1, op |-> op, id |-> id, arg |-> arg, snapshot |-> allTasks,
     pending |-> pending, again |-> again]

\* an operation that returned before withOptimistic
Returned(op, id, arg) ==
    /\ UNCHANGED <<viewVars, unitVars, inputVars, itemVars>>
    /\ last' = Ev("noop", op, nOps + 1, id, arg, <<>>, NoErr, {}, FALSE)
    /\ UNCHANGED <<provider, allTasks, rProvider, rAllTasks, filter, search, isMounted,
                   initPc, inflight, stored, storageOk, genC, hist>>

\* withOptimistic(applyLocalChange, apiCall, rollbackOnError) up to its await
WithOptimistic(next, m, calls) ==
    /\ UNCHANGED <<viewVars, unitVars, inputVars, itemVars>>
    /\ allTasks' = next
    /\ IF CommitsRemotely(rProvider)
       THEN /\ inflight' = inflight \cup {m}
            /\ last' = Ev("call", m.op, m.n, m.id, m.arg, allTasks, NoErr, calls, m.again)
       ELSE /\ inflight' = inflight
            /\ last' = Ev("call", m.op, m.n, m.id, m.arg, <<>>, NoErr, {}, m.again)
    /\ UNCHANGED <<provider, rProvider, rAllTasks, filter, search, isMounted, initPc,
                   stored, storageOk>>

TitleInputs == { <<>>, <<" ">>, <<" ", "a", " ">>, <<"B">> }

addTodo(title) ==
    /\ isMounted /\ nOps < MaxOps
    /\ nOps' = nOps + 1
    /\ LET trimmed == Trim(title)
       IN  IF trimmed = <<>>
           THEN Returned("add", NoId, title)
           ELSE LET id == generateId(Clock, Rand, genC + 1)
                    newItem == [id |-> id, title |-> trimmed, completed |-> FALSE]
                IN  /\ genC' = genC + 1
                    /\ hist' = [hist EXCEPT !.tog = NoTog]
                    /\ WithOptimistic(ApplyAdd(allTasks, newItem),
                                      Mut("add", id, title, {}, FALSE),
                                      {[op |-> "create", id |-> NoId]})

toggleTodo(id) ==
    /\ isMounted /\ nOps < MaxOps
    /\ nOps' = nOps + 1
    /\ IF id = NoId \/ Find(rAllTasks, id) = <<>>
       THEN Returned("toggle", id, <<>>)
       ELSE LET target == Head(Find(rAllTasks, id))
                nextCompleted == ~target.completed
                now == Find(allTasks, id)
            IN  /\ genC' = genC
                /\ hist' = [hist EXCEPT !.tog =
                              IF now = <<>> THEN NoTog
                              ELSE IF hist.tog.id = id /\ hist.tog.k = 1
                                   THEN [hist.tog EXCEPT !.k = 2]
                                   ELSE [id |-> id, orig |-> Head(now).completed, k |-> 1]]
                /\ WithOptimistic(ApplyToggle(allTasks, id, nextCompleted),
                                  Mut("toggle", id, <<>>, {}, FALSE),
                                  {[op |-> "update", id |-> id]})

UpdateInputs == { JsNull, JsString(<<"b">>), [title |-> <<" ", "b">>], [completed |-> TRUE] }

\* mutant: only the id is tested
InvalidUpdateIdOnly(id, updates) == id = NoId

\* updateTodo's guard: !id || !updates || typeof updates !== "object"
InvalidUpdate(id, updates) == id = NoId \/ ~IsObject(updates)

updateTodo(id, updates) ==
    /\ isMounted /\ nOps < MaxOps
    /\ nOps' = nOps + 1
    /\ IF InvalidUpdate(id, updates)
       THEN Returned("update", id, updates)
       ELSE LET safeUpdates == IF "title" \in DOMAIN updates
                               THEN [updates EXCEPT !.title = Trim(updates.title)]
                               ELSE updates
            IN  /\ genC' = genC
                /\ hist' = [hist EXCEPT !.tog = NoTog]
                /\ WithOptimistic(ApplyUpdate(allTasks, id, safeUpdates),
                                  Mut("update", id, updates, {}, FALSE),
                                  {[op |-> "update", id |-> id]})

deleteTodo(id) ==
    /\ isMounted /\ nOps < MaxOps
    /\ nOps' = nOps + 1
    /\ IF id = NoId
       THEN Returned("delete", id, <<>>)
       ELSE /\ genC' = genC
            /\ hist' = [removed |-> IF id \in IdsOf(allTasks)
                                    THEN hist.removed \cup {id} ELSE hist.removed,
                        tog |-> NoTog]
            /\ WithOptimistic(ApplyDelete(allTasks, id),
                              Mut("delete", id, <<>>, {},
                                  id \in hist.removed /\ id \notin IdsOf(allTasks)),
                              {[op |-> "delete", id |-> id]})

clearCompleted ==
    /\ isMounted /\ nOps < MaxOps
    /\ nOps' = nOps + 1
    /\ LET completedIds == CompletedIds(rAllTasks)
       IN  IF completedIds = {}
           THEN Returned("clear", NoId, <<>>)
           ELSE /\ genC' = genC
                /\ hist' = [hist EXCEPT !.tog = NoTog]
                /\ WithOptimistic(ApplyClear(allTasks),
                                  Mut("clear", NoId, <<>>, completedIds, FALSE),
                                  {[op |-> "delete", id |-> i] : i \in completedIds})

----------------------------------------------------------------------------
(* Completion of the remote calls *)

\* the create call of addTodo returns: the placeholder is replaced, or the
\* catch branch of withOptimistic rolls back and may demote
SettleAdd(m, o) ==
    /\ UNCHANGED <<viewVars, unitVars, inputVars, itemVars>>
    /\ m.op = "add"
    /\ LET r == requestJson(o)
       IN  IF r.ok
           THEN /\ IF IsObject(r.data)
                   THEN LET norm == normalizeTodo(r.data, genC)
                        IN  /\ allTasks' = SetState(isMounted, allTasks,
                                                    ApplyCreated(allTasks, m.id, norm.todo))
                            /\ genC' = norm.c
                   ELSE UNCHANGED <<allTasks, genC>>
                /\ provider' = provider
                /\ last' = Ev("settleOk", m.op, m.n, m.id, m.arg, m.snapshot, r, {}, m.again)
           ELSE /\ allTasks' = SetState(isMounted, allTasks, Rollback(allTasks, m.snapshot))
                /\ provider' = SetState(isMounted, provider, ProviderAfterFailure(r, provider))
                /\ genC' = genC
                /\ last' = Ev("settleFail", m.op, m.n, m.id, m.arg, m.snapshot, r, {},
                               m.again)
    /\ inflight' = inflight \ {m}
    /\ hist' = [hist EXCEPT !.tog = NoTog]
    /\ UNCHANGED <<rProvider, rAllTasks, filter, search, isMounted, initPc, stored,
                   storageOk, nOps>>

\* the update / delete call of toggleTodo, updateTodo or deleteTodo returns
SettlePlain(m, o) ==
    /\ UNCHANGED <<viewVars, unitVars, inputVars, itemVars>>
    /\ m.op \in {"toggle", "update", "delete"}
    /\ LET r == apiByIdTodo(m.id, o)
       IN  IF r.ok
           THEN /\ UNCHANGED <<allTasks, provider, hist>>
                /\ last' = Ev("settleOk", m.op, m.n, m.id, m.arg, m.snapshot, NoErr, {}, m.again)
           ELSE /\ allTasks' = SetState(isMounted, allTasks, Rollback(allTasks, m.snapshot))
                /\ provider' = SetState(isMounted, provider, ProviderAfterFailure(r, provider))
                /\ hist' = [hist EXCEPT !.tog = NoTog]
                /\ last' = Ev("settleFail", m.op, m.n, m.id, m.arg, m.snapshot, r, {},
                               m.again)
    /\ inflight' = inflight \ {m}
    /\ UNCHANGED <<rProvider, rAllTasks, filter, search, isMounted, initPc, stored,
                   storageOk, genC, nOps>>

\* one of the deletes under Promise.allSettled in clearCompleted returns
SettleClear(m, id, o) ==
    /\ UNCHANGED <<viewVars, unitVars, inputVars, itemVars>>
    /\ m.op = "clear"
    /\ id \in m.pending
    /\ LET r == apiByIdTodo(id, o)
           rest == m.pending \ {id}
       IN  /\ inflight' = IF rest = {} THEN inflight \ {m}
                          ELSE (inflight \ {m}) \cup {[m EXCEPT !.pending = rest]}
           /\ last' = Ev(IF r.ok THEN "settleOk" ELSE "settleFail", m.op, m.n, id,
                         m.arg, m.snapshot, IF r.ok THEN NoErr ELSE r,
                         {[op |-> "delete", id |-> i] : i \in rest}, FALSE)
    /\ UNCHANGED <<provider, allTasks, rProvider, rAllTasks, filter, search, isMounted,
                   initPc, stored, storageOk, genC, nOps, hist>>

\* init(): api.listTodos() returns
InitSettle(o) ==
    /\ UNCHANGED <<viewVars, unitVars, inputVars, itemVars>>
    /\ initPc = "listing"
    /\ initPc' = "done"
    /\ LET r == requestJson(o)
       IN  IF r.ok
           THEN LET norm == IF IsArray(r.data) THEN NormalizeList(r.data.items, genC)
                            ELSE [tasks |-> <<>>, c |-> genC]
                IN  /\ genC' = norm.c
                    /\ allTasks' = IF isMounted THEN norm.tasks ELSE allTasks
                    /\ provider' = provider
                    /\ last' = Ev("initOk", "list", 0, NoId, <<>>, <<>>, NoErr, {}, FALSE)
           ELSE IF isNetworkOrServerError(r)
           THEN LET norm == NormalizeList(loadTodos(stored, storageOk), genC)
                IN  /\ genC' = norm.c
                    /\ allTasks' = IF isMounted THEN norm.tasks ELSE allTasks
                    /\ provider' = IF isMounted THEN "local" ELSE provider
                    /\ last' = Ev("initFail", "list", 0, NoId, <<>>, <<>>, r, {}, FALSE)
           ELSE /\ UNCHANGED <<genC, allTasks, provider>>
                /\ last' = Ev("initFail", "list", 0, NoId, <<>>, <<>>, r, {}, FALSE)
    /\ hist' = [hist EXCEPT !.tog = NoTog]
    /\ UNCHANGED <<rProvider, rAllTasks, filter, search, isMounted, inflight, stored,
                   storageOk, nOps>>

----------------------------------------------------------------------------
(* Rendering, view state, teardown *)

\* mutant: the persist effect never saves
PersistNever(p, st, ok, list) == st

\* mutant: the persist effect saves in every mode
PersistAlways(p, st, ok, list) == saveTodos(st, ok, list)

\* the persist effect: if (provider === "local") saveLocal(allTasks)
Persist(p, st, ok, list) == IF p = "local" THEN saveTodos(st, ok, list) ELSE st

\* a render commits: the callbacks capture the current state, and the persist
\* effect (deps [provider, allTasks]) runs
Render ==
    /\ UNCHANGED <<viewVars, unitVars, inputVars, itemVars>>
    /\ isMounted
    /\ rProvider # provider \/ rAllTasks # allTasks
    /\ rProvider' = provider
    /\ rAllTasks' = allTasks
    /\ stored' = Persist(provider, stored, storageOk, allTasks)
    /\ UNCHANGED <<provider, allTasks, filter, search, isMounted, initPc, inflight,
                   storageOk, genC, nOps, last, hist>>

Filters == {"all", "active", "completed"}

setFilter(f) ==
    /\ UNCHANGED <<viewVars, unitVars, inputVars, itemVars>>
    /\ isMounted
    /\ f # filter
    /\ filter' = f
    /\ UNCHANGED <<provider, allTasks, rProvider, rAllTasks, search, isMounted, initPc,
                   inflight, stored, storageOk, genC, nOps, last, hist>>

SearchInputs == { <<>>, <<"A">>, <<" ", "b">> }

\* setSearch(val): the echo is set at once, the pending timer is cancelled and a
\* new one is started
setSearch(val) ==
    /\ isMounted /\ dbc.calls < MaxSearch
    /\ searchImmediate' = val
    /\ timers' = clearTimer(timers, timerRef)
                    \cup {[id |-> dbc.calls + 1, val |-> val, left |-> Wait]}
    /\ timerRef' = dbc.calls + 1
    /\ dbc' = LET fresh == dbc.calls = 0 \/ dbc.since >= Wait
               IN  [kind |-> "call", calls |-> dbc.calls + 1,
                    burst |-> IF fresh THEN 1 ELSE dbc.burst + 1,
                    lastVal |-> val, since |-> 0,
                    changes |-> IF fresh THEN 0 ELSE dbc.changes,
                    changed |-> FALSE, searchBefore |-> search]
    /\ UNCHANGED <<provider, allTasks, rProvider, rAllTasks, filter, search, isMounted,
                   initPc, inflight, stored, storageOk, genC, nOps, last, hist, unitVars, inputVars, itemVars>>

\* milliseconds that may pass between two events
TickSteps == {100, 150}

Min(a, b) == IF a < b THEN a ELSE b
Max(a, b) == IF a > b THEN a ELSE b

\* time passes while a timer is pending or the window is still open
Tick(d) ==
    /\ dbc.calls > 0
    /\ dbc.since < Wait \/ \E t \in timers : t.left > 0
    /\ timers' = {[t EXCEPT !.left = Max(0, t.left - d)] : t \in timers}
    /\ dbc' = [dbc EXCEPT !.kind = "tick", !.since = Min(Wait, dbc.since + d)]
    /\ UNCHANGED <<provider, allTasks, rProvider, rAllTasks, filter, search, isMounted,
                   initPc, inflight, stored, storageOk, genC, nOps, last, hist,
                   searchImmediate, timerRef, unitVars, inputVars, itemVars>>

\* a timer whose delay has elapsed runs fnRef.current(val), i.e. setSearchRaw(val)
TimerFires(t) ==
    /\ t \in timers /\ t.left = 0
    /\ timers' = timers \ {t}
    /\ search' = SetState(isMounted, search, t.val)
    /\ dbc' = [dbc EXCEPT !.kind = "fire", !.changed = (search' # search),
                          !.changes = IF search' # search THEN dbc.changes + 1
                                      ELSE dbc.changes,
                          !.searchBefore = search]
    /\ UNCHANGED <<provider, allTasks, rProvider, rAllTasks, filter, isMounted,
                   initPc, inflight, stored, storageOk, genC, nOps, last, hist,
                   searchImmediate, timerRef, unitVars, inputVars, itemVars>>

\* useMemo(() => filterAndSearch(allTasks, filter, search)): the derived view
tasks == filterAndSearch(allTasks, filter, search)

\* cleanup of the init effect
Unmount ==
    /\ isMounted
    /\ timers' = clearTimer(timers, timerRef)
    /\ UNCHANGED <<searchImmediate, timerRef, dbc, unitVars, inputVars, itemVars>>
    /\ isMounted' = FALSE
    /\ UNCHANGED <<provider, allTasks, rProvider, rAllTasks, filter, search, initPc,
                   inflight, stored, storageOk, genC, nOps, last, hist>>

\* ids an operation may be called with: those of the tasks shown or present,
\* one that no task has, and a missing id
IdInputs == IdsOf(rAllTasks) \cup IdsOf(allTasks) \cup {"nonexistent", NoId}

Next ==
    \/ \E title \in TitleInputs : addTodo(title)
    \/ \E id \in IdInputs : toggleTodo(id)
    \/ \E id \in IdInputs, u \in UpdateInputs : updateTodo(id, u)
    \/ \E id \in IdInputs : deleteTodo(id)
    \/ clearCompleted
    \/ \E m \in {x \in inflight : x.op = "add"} :
          \E o \in CreateAnswers(m.n, Trim(m.arg)) : SettleAdd(m, o)
    \/ \E m \in inflight : \E o \in PlainAnswers : SettlePlain(m, o)
    \/ \E m \in inflight : \E id \in m.pending, o \in PlainAnswers : SettleClear(m, id, o)
    \/ \E o \in ListAnswers : InitSettle(o)
    \/ Render

Spec == Init /\ [][Next]_vars

\* a session at the list's controls: the list arrives, tasks are toggled, the
\* status filter is changed and the search box is typed into
NextView ==
    \/ \E o \in ListAnswers : InitSettle(o)
    \/ Render
    \/ \E id \in IdInputs : toggleTodo(id)
    \/ \E f \in Filters : setFilter(f)
    \/ \E val \in SearchInputs : setSearch(val)
    \/ \E d \in TickSteps : Tick(d)
    \/ \E t \in timers : TimerFires(t)
    \/ Unmount

SpecView == Init /\ [][NextView]_vars

\* the same session, in which the component may also be torn down
NextTeardown == Next \/ Unmount

SpecTeardown == Init /\ [][NextTeardown]_vars

----------------------------------------------------------------------------
(* The TodoInput component *)

\* the hook's state, which TodoInput does not touch
hookVars == <<provider, allTasks, rProvider, rAllTasks, filter, search, isMounted,
              initPc, inflight, stored, storageOk, genC, nOps, last, hist>>

\* mutant: the text is tested as typed
canAddUntrimmed(text) == Len(text) > 0

\* const canAdd = title.trim().length > 0
canAdd(text) == Len(Trim(text)) > 0

\* disabled={!canAdd} on the Add button
addDisabled == ~canAdd(inputTitle)

\* handleSubmit(): a text that trims to nothing is dropped, otherwise onAdd
\* receives the trimmed text and the input is reset
handleSubmit(kind) ==
    LET t == Trim(inputTitle)
    IN  IF t = <<>>
        THEN /\ UNCHANGED <<inputTitle, onAddCalls>>
             /\ inputLast' = [kind |-> kind, before |-> inputTitle, submitted |-> FALSE]
        ELSE /\ onAddCalls' = Append(onAddCalls, t)
             /\ inputTitle' = <<>>
             /\ inputLast' = [kind |-> kind, before |-> inputTitle, submitted |-> TRUE]

\* onChange={(e) => setTitle(e.target.value)}
onChange(val) ==
    /\ val # inputTitle
    /\ inputTitle' = val
    /\ inputLast' = [kind |-> "change", before |-> inputTitle, submitted |-> FALSE]
    /\ UNCHANGED <<onAddCalls, hookVars, viewVars, unitVars, itemVars>>

\* a click on the Add button, which a disabled button does not deliver
onClick ==
    /\ ~addDisabled
    /\ Len(onAddCalls) < MaxSubmits
    /\ handleSubmit("click")
    /\ UNCHANGED <<hookVars, viewVars, unitVars, itemVars>>

\* keys pressed in the input, with their modifiers
KeyEvents ==
    [key : {"Enter", "a"}, ctrlKey : BOOLEAN, metaKey : BOOLEAN, shiftKey : BOOLEAN]

\* onKeyDown(e): Enter, unless it is Shift+Enter without Ctrl or Cmd, submits
\* when canAdd
onKeyDown(e) ==
    /\ Len(onAddCalls) < MaxSubmits
    /\ IF e.key = "Enter" /\ (e.ctrlKey \/ e.metaKey \/ ~e.shiftKey) /\ canAdd(inputTitle)
       THEN handleSubmit("enter")
       ELSE /\ UNCHANGED <<inputTitle, onAddCalls>>
            /\ inputLast' = [kind |-> "key", before |-> inputTitle, submitted |-> FALSE]
    /\ UNCHANGED <<hookVars, viewVars, unitVars, itemVars>>

\* a session at the input: text is typed, the button is clicked, keys are pressed
NextInput ==
    \/ \E val \in TitleInputs : onChange(val)
    \/ onClick
    \/ \E e \in KeyEvents : onKeyDown(e)

SpecInput == Init /\ [][NextInput]_vars

----------------------------------------------------------------------------
(* The TodoItem component *)

\* titles a listed task may carry: trimmed ones, and one with a leading blank
\* as the backend may send it
ItemTitles == { <<"a">>, <<"b">>, <<" ", "B">> }

\* texts typed into the edit field
DraftInputs == { <<>>, <<" ">>, <<"a">>, <<" ", "b", " ">>, <<" ", "B">> }

\* a row is mounted for a task (rows are keyed by id): fresh state
MountItem(title) ==
    /\ itemTitle' = title
    /\ editing' = FALSE
    /\ draft' = title
    /\ itemLast' = ItemEv("mount", FALSE)
    /\ UNCHANGED <<onUpdateCalls, hookVars, viewVars, unitVars, inputVars>>

\* the parent renders the row again with a changed title; the row's state stays
ItemRerendered(title) ==
    /\ title # itemTitle
    /\ itemTitle' = title
    /\ itemLast' = ItemEv("prop", FALSE)
    /\ UNCHANGED <<editing, draft, onUpdateCalls, hookVars, viewVars, unitVars, inputVars>>

\* double click or Enter on the label, or the edit button: setEditing(true)
startEditing ==
    /\ ~editing
    /\ editing' = TRUE
    /\ itemLast' = ItemEv("edit", FALSE)
    /\ UNCHANGED <<itemTitle, draft, onUpdateCalls, hookVars, viewVars, unitVars,
                   inputVars>>

\* onChange={(e) => setDraft(e.target.value)} of the edit field
onChangeDraft(val) ==
    /\ editing
    /\ val # draft
    /\ draft' = val
    /\ itemLast' = ItemEv("change", FALSE)
    /\ UNCHANGED <<itemTitle, editing, onUpdateCalls, hookVars, viewVars, unitVars,
                   inputVars>>

\* save(): an empty or unchanged trimmed draft is dropped and the draft reset,
\* otherwise onUpdate(item.id, { title: next }) is called; editing ends
save(kind) ==
    LET next == Trim(draft)
    IN  IF next = <<>> \/ next = itemTitle
        THEN /\ editing' = FALSE
             /\ draft' = itemTitle
             /\ onUpdateCalls' = onUpdateCalls
             /\ itemLast' = ItemEv(kind, FALSE)
        ELSE /\ onUpdateCalls' = Append(onUpdateCalls, next)
             /\ editing' = FALSE
             /\ draft' = draft
             /\ itemLast' = ItemEv(kind, TRUE)

\* cancel(): the draft is reset and editing ends
cancel ==
    /\ draft' = itemTitle
    /\ editing' = FALSE
    /\ onUpdateCalls' = onUpdateCalls
    /\ itemLast' = ItemEv("escape", FALSE)

\* keys pressed in the edit field
ItemKeyEvents == [key : {"Enter", "Escape", "a"}, shiftKey : BOOLEAN]

\* onKeyDown(e) of the edit field: Enter without Shift saves, Escape cancels
itemOnKeyDown(e) ==
    /\ editing
    /\ Len(onUpdateCalls) < MaxUpdates
    /\ IF e.key = "Enter" /\ ~e.shiftKey
       THEN save("enter")
       ELSE IF e.key = "Escape"
       THEN cancel
       ELSE /\ UNCHANGED <<editing, draft, onUpdateCalls>>
            /\ itemLast' = ItemEv("key", FALSE)
    /\ UNCHANGED <<itemTitle, hookVars, viewVars, unitVars, inputVars>>

\* onBlur={save} of the edit field
onBlur ==
    /\ editing
    /\ Len(onUpdateCalls) < MaxUpdates
    /\ save("blur")
    /\ UNCHANGED <<itemTitle, hookVars, viewVars, unitVars, inputVars>>

\* a session at one row of the list
NextItem ==
    \/ \E title \in ItemTitles : MountItem(title)
    \/ \E title \in ItemTitles : ItemRerendered(title)
    \/ startEditing
    \/ \E val \in DraftInputs : onChangeDraft(val)
    \/ \E e \in ItemKeyEvents : itemOnKeyDown(e)
    \/ onBlur

SpecItem == Init /\ [][NextItem]_vars

----------------------------------------------------------------------------
(* The adapters' functions called on their own *)

\* api.updateTodo(id, ...) / api.deleteTodo(id) called directly
ApiById(op, id, o) ==
    /\ wire < MaxWire
    /\ LET res == apiByIdTodo(id, o)
       IN  /\ ret' = [op |-> op, id |-> id, res |-> res, wireBefore |-> wire]
           /\ wire' = IF res.sent THEN wire + 1 ELSE wire
    /\ UNCHANGED <<provider, allTasks, rProvider, rAllTasks, filter, search, isMounted,
                   initPc, inflight, stored, storageOk, genC, nOps, last, hist,
                   viewVars, issued, inputVars, itemVars>>

\* whether the call before this one was a save, and of what
SavedJustBefore ==
    IF ret.op = "save"
    THEN [is |-> TRUE, arg |-> ret.arg, fault |-> ret.fault]
    ELSE [is |-> FALSE, arg |-> JsNull, fault |-> FALSE]

\* loadTodos()
StorageLoad(fault) ==
    /\ ret' = [op |-> "load", out |-> tryLoadTodos(stored, storageOk, fault),
               fault |-> fault, storedBefore |-> stored, afterSave |-> SavedJustBefore]
    /\ UNCHANGED <<provider, allTasks, rProvider, rAllTasks, filter, search, isMounted,
                   initPc, inflight, stored, storageOk, genC, nOps, last, hist,
                   viewVars, wire, issued, inputVars, itemVars>>

\* a list with a member whose value is undefined
ListWithUndefined ==
    << [id |-> "k2", title |-> <<"b">>, completed |-> FALSE, due |-> JsUndefined] >>

\* arguments of saveTodos
SaveInputs == { JsArray(<<>>), JsArray(StoredList), JsArray(ListWithUndefined), JsNull }

\* saveTodos(todos)
StorageSave(todos, fault) ==
    /\ LET out == trySaveTodos(stored, storageOk, fault, todos)
       IN  /\ stored' = IF out.raised THEN stored ELSE out.value
           /\ ret' = [op |-> "save", out |-> [raised |-> out.raised], arg |-> todos,
                      fault |-> fault, storedBefore |-> stored]
    /\ UNCHANGED <<provider, allTasks, rProvider, rAllTasks, filter, search, isMounted,
                   initPc, inflight, storageOk, genC, nOps, last, hist, viewVars, wire,
                   issued, inputVars, itemVars>>

\* saveTodos(loadTodos())
StorageRoundTrip ==
    /\ LET loaded == tryLoadTodos(stored, storageOk, FALSE)
           out == IF loaded.raised THEN loaded
                  ELSE trySaveTodos(stored, storageOk, FALSE, JsArray(loaded.value))
       IN  /\ stored' = IF out.raised THEN stored ELSE out.value
           /\ ret' = [op |-> "roundtrip", out |-> [raised |-> out.raised],
                      loaded |-> IF loaded.raised THEN <<>> ELSE loaded.value,
                      storedBefore |-> stored]
    /\ UNCHANGED <<provider, allTasks, rProvider, rAllTasks, filter, search, isMounted,
                   initPc, inflight, storageOk, genC, nOps, last, hist, viewVars, wire,
                   issued, inputVars, itemVars>>

\* Date.now() as successive readings, Math.random() as one of two draws
Clocks == <<"t0", "t1">>
Rands == {"r0", "r1"}

IssuedId(n, tick, rand) ==
    [n |-> n, tick |-> tick, rand |-> rand, counter |-> counterPart(n),
     id |-> generateId(Clocks[tick], rand, n)]

\* generateId() called at clock reading tick, drawing rand
NewId(tick, rand) ==
    /\ Len(issued) < MaxIssued
    /\ issued # <<>> => tick >= issued[Len(issued)].tick
    /\ genC' = genC + 1
    /\ issued' = Append(issued, IssuedId(genC + 1, tick, rand))
    /\ ret' = [op |-> "newId", id |-> generateId(Clocks[tick], rand, genC + 1)]
    /\ UNCHANGED <<provider, allTasks, rProvider, rAllTasks, filter, search, isMounted,
                   initPc, inflight, stored, storageOk, nOps, last, hist, viewVars, wire,
                   inputVars, itemVars>>

\* the module's state before the hook is mounted: any record in storage, and
\* the id counter either fresh or after 65534 calls, of which the first and the
\* last are remembered
InitAdapters ==
    /\ provider = "local" /\ rProvider = "local"
    /\ allTasks = <<>> /\ rAllTasks = <<>>
    /\ filter = "all" /\ search = <<>>
    /\ isMounted = FALSE
    /\ initPc = "done"
    /\ inflight = {}
    /\ nOps = 0
    /\ last = MountEv("local", <<>>, {})
    /\ hist = [removed |-> {}, tog |-> NoTog]
    /\ InitView
    /\ InitInput
    /\ InitItem
    /\ ret = NoRet
    /\ wire = 0
    /\ stored \in StoredChoices
    /\ storageOk \in BOOLEAN
    /\ \/ genC = 0 /\ issued = <<>>
       \/ /\ genC = WrapMod - 1
          /\ issued = << IssuedId(1, 1, "r0"), IssuedId(WrapMod - 1, 2, "r0") >>

NextAdapters ==
    \/ \E op \in {"api.update", "api.delete"}, id \in {NoId, "k1"}, o \in PlainAnswers :
          ApiById(op, id, o)
    \/ \E fault \in BOOLEAN : StorageLoad(fault)
    \/ \E todos \in SaveInputs, fault \in BOOLEAN : StorageSave(todos, fault)
    \/ StorageRoundTrip
    \/ \E tick \in 1..Len(Clocks), rand \in Rands : NewId(tick, rand)

SpecAdapters == InitAdapters /\ [][NextAdapters]_vars

----------------------------------------------------------------------------
(* Claims *)

\* the spec's taxonomy of Remote Adapter failures (spec section 6)
IsTransient(err) == ~err.hasStatus \/ err.status >= 500
IsRejected(err) == err.hasStatus /\ err.status < 500

SingleOps == {"add", "toggle", "update", "delete"}

IsBlank(s) == \A i \in 1..Len(s) : s[i] = " "

ActiveOnly(list) == SelectSeq(list, LAMBDA t : t.completed = FALSE)

\* C1: in remote mode, when the remote call of an add, toggle, update or delete
\* fails with a rejected error, the canonical list is the list the mutation
\* started from (for add: the optimistic task is gone) and the mode is what it was.
C1_RejectedRollsBack ==
    (last.kind = "settleFail" /\ last.op \in SingleOps /\ IsRejected(last.err))
        => /\ allTasks = last.snapshot
           /\ provider = last.provBefore
           /\ (last.op = "add" => last.id \notin IdsOf(allTasks))

C1_Witness ==
    /\ last.kind = "settleFail" /\ last.op = "add" /\ IsRejected(last.err)
    /\ last.id \in IdsOf(last.before)
    /\ last.id \notin IdsOf(allTasks)
    /\ provider = "api"

\* C2: in remote mode, when the remote call of an add, toggle, update or delete
\* fails with a transient error, the canonical list is the snapshot taken when the
\* mutation started and the mode is local.
C2_TransientRollsBackAndDemotes ==
    (last.kind = "settleFail" /\ last.op \in SingleOps /\ IsTransient(last.err))
        => /\ allTasks = last.snapshot
           /\ provider = "local"

C2_Witness ==
    /\ last.kind = "settleFail" /\ last.op = "toggle" /\ ~last.err.hasStatus
    /\ last.provBefore = "api"
    /\ last.before # last.snapshot
    /\ allTasks = last.snapshot
    /\ provider = "local"

\* C3: when the session starts in remote mode and the initial list() fails with a
\* transient error, the mode is local and the canonical list is the normalized
\* list that the Storage Adapter's load() returns.
C3_InitTransientFallsBack ==
    (last.kind = "initFail" /\ IsTransient(last.err) /\ isMounted)
        => /\ provider = "local"
           /\ allTasks = NormalizeList(loadTodos(stored, storageOk), last.cBefore).tasks

C3_Witness ==
    /\ last.kind = "initFail" /\ IsTransient(last.err)
    /\ last.provBefore = "api"
    /\ provider = "local"
    /\ Len(allTasks) = 2
    /\ "k1" \in IdsOf(allTasks)

\* C4: the mode only ever changes from remote to local: once it is local (as
\* set, and as seen by the callbacks) no step makes it remote again, whatever
\* succeeds or fails afterwards.
C4_ModeMonotonic ==
    [][ /\ (provider = "local" => provider' = "local")
        /\ (rProvider = "local" => rProvider' = "local") ]_vars

\* a transient failure arrives while the mode is already local
C4_Witness ==
    /\ last.kind = "settleFail" /\ IsTransient(last.err)
    /\ last.provBefore = "local"
    /\ provider = "local"
    /\ "srv_a" \in IdsOf(last.snapshot)

C6_AddGrowsByOne ==
    (last.op = "add" /\ last.kind \in {"call", "noop"} /\ ~IsBlank(last.arg))
        => /\ last.kind = "call"
           /\ Len(allTasks) = Len(last.before) + 1
           /\ Len(Find(allTasks, last.id)) = 1
           /\ last.id \notin IdsOf(last.before)
           /\ Head(Find(allTasks, last.id)).completed = FALSE
           /\ Head(Find(allTasks, last.id)).title = Trim(last.arg)
           /\ ~IsBlank(Head(Find(allTasks, last.id)).title)
           /\ (filter = "all" /\ IsBlank(search)
                 => Find(filterAndSearch(allTasks, filter, search), last.id) # <<>>)

C6_Witness ==
    /\ last.op = "add" /\ last.kind = "call"
    /\ last.arg = <<" ", "a", " ">>
    /\ Len(last.before) = 1
    /\ Len(allTasks) = 2
    /\ allTasks[1].title = <<"a">>
    /\ filter = "all"

\* C7: add(title) with an empty or whitespace-only title leaves the canonical
\* list and the mode unchanged and issues no backend call.
C7_BlankAddIsNoop ==
    (last.op = "add" /\ last.kind \in {"call", "noop"} /\ IsBlank(last.arg))
        => /\ last.kind = "noop"
           /\ allTasks = last.before
           /\ provider = last.provBefore
           /\ last.calls = {}
           /\ \A m \in inflight : m.n # last.n

C7_Witness ==
    /\ last.op = "add" /\ last.kind = "noop"
    /\ last.arg = <<" ">>
    /\ last.rProvBefore = "api"
    /\ allTasks # <<>>

\* C8: for a task in the list, two calls of toggle(id) bring its completed flag
\* back to the value it had before the first call, also when the second call is
\* made before the first one was rendered or committed remotely; and toggle with
\* an id that no task has leaves the list unchanged.
C8_ToggleTwiceRestores ==
    /\ hist.tog.k = 2
         => Head(Find(allTasks, hist.tog.id)).completed = hist.tog.orig
    /\ (last.op = "toggle" /\ last.kind \in {"call", "noop"}
          /\ last.id \notin IdsOf(last.before))
         => allTasks = last.before

\* C9 (as claimed): once delete(id) has removed the task, a second delete(id) is
\* a no-op: neither its call nor the completion of its remote call changes the
\* canonical list or the mode.
C9_SecondDeleteIsNoop ==
    (last.op = "delete" /\ last.again /\ last.kind \in {"call", "settleOk", "settleFail"})
        => /\ allTasks = last.before
           /\ provider = last.provBefore

\* C9 (amended): once delete(id) has removed the task, a second delete(id)
\* changes neither list nor mode when it is called (in local mode it does nothing
\* else) and when its remote delete succeeds; when its remote delete fails, the
\* list is set to the list the second call started from, which does not hold the
\* task, and the mode is demoted to local exactly if the failure is transient.
C9_SecondDeleteAmended ==
    (last.op = "delete" /\ last.again)
        => /\ last.kind = "call"
                => /\ allTasks = last.before
                   /\ provider = last.provBefore
                   /\ (last.rProvBefore = "local"
                         => last.calls = {} /\ \A m \in inflight : m.n # last.n)
           /\ last.kind = "settleOk"
                => /\ allTasks = last.before
                   /\ provider = last.provBefore
           /\ last.kind = "settleFail"
                => /\ allTasks = last.snapshot
                   /\ last.id \notin IdsOf(allTasks)
                   /\ provider = IF IsTransient(last.err) THEN "local" ELSE last.provBefore

C9_Witness ==
    /\ last.op = "delete" /\ last.again /\ last.kind = "settleFail"
    /\ IsTransient(last.err)
    /\ last.provBefore = "api"
    /\ provider = "local"
    /\ last.id \in hist.removed
    /\ allTasks # <<>>

IdSeq(list) == [i \in 1..Len(list) |-> list[i].id]

Distinct(seq) == \A i, j \in 1..Len(seq) : i # j => seq[i] # seq[j]

\* the spec's conditions on a task of the derived view
LowerCased(ch) == CASE ch = "A" -> "a" [] ch = "B" -> "b" [] OTHER -> ch

ContainsIgnoringCase(title, needle) ==
    \E i \in 0..(Len(title) - Len(needle)) :
        \A k \in 1..Len(needle) : LowerCased(title[i + k]) = LowerCased(needle[k])

PassesFilter(t, f) ==
    \/ f = "all"
    \/ f = "active" /\ t.completed = FALSE
    \/ f = "completed" /\ t.completed = TRUE

InView(t) == PassesFilter(t, filter) /\ ContainsIgnoringCase(t.title, Trim(search))

\* C11: the derived view is exactly the subsequence of the canonical list whose
\* tasks pass the status filter and whose title contains the trimmed search text
\* case-insensitively; the active view holds no completed task and the completed
\* view no active one.
C11_ViewIsFilteredSubsequence ==
    LET idx == {i \in 1..Len(allTasks) : InView(allTasks[i])}
        Nth(k) == CHOOSE i \in idx : Cardinality({j \in idx : j < i}) = k - 1
    IN  /\ Len(tasks) = Cardinality(idx)
        /\ \A k \in 1..Len(tasks) : tasks[k] = allTasks[Nth(k)]
        /\ filter = "active" => \A k \in 1..Len(tasks) : tasks[k].completed = FALSE
        /\ filter = "completed" => \A k \in 1..Len(tasks) : tasks[k].completed = TRUE

\* the completed view under the search " b": of three tasks one is left out by
\* the filter, one by the search
C11_Witness ==
    /\ filter = "completed"
    /\ search = <<" ", "b">>
    /\ Len(allTasks) = 3
    /\ IdSeq(tasks) = <<"srv_c">>
    /\ \E i \in 1..3 : ~allTasks[i].completed /\ ContainsIgnoringCase(allTasks[i].title, <<"b">>)

\* C12: every task of the canonical list has a non-empty title without leading
\* or trailing whitespace.
C12_TitlesTrimmedNonEmpty ==
    \A i \in 1..Len(allTasks) :
        /\ allTasks[i].title # <<>>
        /\ Head(allTasks[i].title) # " "
        /\ allTasks[i].title[Len(allTasks[i].title)] # " "

C14_FailureClassification ==
    (last.kind \in {"settleFail", "initFail"} /\ isMounted)
        => /\ IsTransient(last.err)
                => /\ last.err.isNetworkOrServerError
                   /\ last.op # "clear" => provider = "local"
           /\ ~IsTransient(last.err)
                => /\ ~last.err.isNetworkOrServerError
                   /\ provider = last.provBefore

\* C15: the Remote Adapter's update and delete, called without an identifier,
\* raise an error (status 400) without handing a request to fetch, and the
\* error is not one that makes the Core fall back to local mode.
C15_MissingIdIsClientError ==
    (ret.op \in {"api.update", "api.delete"} /\ ret.id = NoId)
        => /\ ~ret.res.ok
           /\ ~ret.res.sent
           /\ wire = ret.wireBefore
           /\ ret.res.hasStatus /\ ret.res.status = 400
           /\ ~isNetworkOrServerError(ret.res)
           /\ ~IsTransient(ret.res)

\* delete without an id, after a request of an earlier call went out
C15_Witness ==
    /\ ret.op = "api.delete" /\ ret.id = NoId
    /\ ~ret.res.ok
    /\ wire = 1

\* the list a record stands for
LogicalContent(st) == IF st.raw = "json" /\ IsArray(st.val) THEN st.val.items ELSE <<>>

\* C16: load() and save() never raise; when storage is unavailable or throws,
\* load returns the empty list and save leaves the record alone; when the
\* record is absent, unparsable or not an array, load returns the empty list.
C16_StorageNeverRaises ==
    /\ ret.op \in {"load", "save", "roundtrip"} => ~ret.out.raised
    /\ ret.op = "load"
         => /\ (~storageOk \/ ret.fault) => ret.out.value = <<>>
            /\ (stored.raw # "json" \/ ~IsArray(stored.val)) => ret.out.value = <<>>
    /\ (ret.op = "save" /\ (~storageOk \/ ret.fault)) => stored = ret.storedBefore

\* getItem threw although storage holds a list
C16_Witness ==
    /\ ret.op = "load" /\ ret.fault /\ storageOk
    /\ LogicalContent(stored) = StoredList
    /\ ~ret.out.raised
    /\ ret.out.value = <<>>

NoUndefined(list) ==
    \A i \in 1..Len(list) :
        IsObject(list[i]) => \A f \in DOMAIN list[i] \ CoreFields : list[i][f] # JsUndefined

C18_NewIdUniqueMonotone ==
    \A i, j \in 1..Len(issued) :
        i < j => /\ issued[i].id # issued[j].id
                 /\ issued[i].counter < issued[j].counter

\* C18 (amended): the counter component of the n-th identifier is n modulo
\* 65535: it grows by one from call to call except that 0 follows 65534; two
\* identifiers differ whenever their calls are not a multiple of 65535 apart,
\* or were made at different clock readings or with different random parts.
C18_NewIdUniqueUpToWrap ==
    \A i, j \in 1..Len(issued) :
        i < j => /\ ( \/ (issued[j].n - issued[i].n) % WrapMod # 0
                      \/ issued[i].tick # issued[j].tick
                      \/ issued[i].rand # issued[j].rand )
                    => issued[i].id # issued[j].id
                 /\ issued[j].n = issued[i].n + 1
                    => issued[j].counter = IF issued[i].counter = WrapMod - 1 THEN 0
                                           ELSE issued[i].counter + 1

\* the counter has wrapped: the calls 65534, 65535 and 65536 carry 65534, 0, 1
C18_Witness ==
    /\ Len(issued) = 4
    /\ issued[2].counter = WrapMod - 1
    /\ issued[3].counter = 0
    /\ issued[4].counter = 1
    /\ issued[4].rand = issued[1].rand
    /\ issued[4].id # issued[1].id

\* C19: within a burst of setSearch calls, each less than 250 ms after the one
\* before, the search text of the derived view changes at most once, only when
\* 250 ms have passed since the last call, and to that call's value; a call
\* itself leaves that text alone and makes the echoed value its argument.
C19_SearchDebounced ==
    /\ dbc.changes <= 1
    /\ (dbc.kind = "fire" /\ dbc.changed)
         => dbc.since >= Wait /\ search = dbc.lastVal
    /\ dbc.kind = "call"
         => searchImmediate = dbc.lastVal /\ search = dbc.searchBefore

\* a burst of two calls has been followed by the one update of the view's text
C19_Witness ==
    /\ dbc.kind = "fire" /\ dbc.changed
    /\ dbc.burst = 2
    /\ search = <<" ", "b">>
    /\ dbc.searchBefore = <<>>
    /\ searchImmediate = search
    /\ timers = {}

Blanks(n) == [k \in 1..n |-> " "]

\* t is s without its leading and trailing spaces
IsTrimOf(t, s) ==
    /\ t # <<>> => t[1] # " " /\ t[Len(t)] # " "
    /\ \E i, j \in 0..Len(s) : s = Blanks(i) \o t \o Blanks(j)

\* C21: the Add control is enabled exactly when the input text trims to non-empty
\* (and is disabled at the start, the input being empty); no title passed to onAdd
\* is blank; a submit of a non-blank text, by button or Enter, passes the trimmed
\* text to onAdd and leaves the input empty
C21_AddControlAndSubmit ==
    /\ addDisabled <=> IsBlank(inputTitle)
    /\ inputLast.kind = "none" => inputTitle = <<>> /\ addDisabled
    /\ \A i \in 1..Len(onAddCalls) : ~IsBlank(onAddCalls[i])
    /\ inputLast.kind \in {"click", "enter"} =>
          /\ inputLast.submitted <=> ~IsBlank(inputLast.before)
          /\ inputLast.submitted =>
                /\ inputTitle = <<>>
                /\ onAddCalls # <<>>
                /\ IsTrimOf(onAddCalls[Len(onAddCalls)], inputLast.before)

C21_Witness ==
    /\ inputLast.kind = "enter"
    /\ inputLast.submitted
    /\ inputLast.before = <<" ", "a", " ">>
    /\ onAddCalls = << <<"B">>, <<"a">> >>
    /\ inputTitle = <<>>

\* C22: mutations are not serialized. When a mutation's remote call fails, its
\* rollback installs the snapshot taken when it was invoked: whatever a mutation
\* invoked after it has put into the canonical list is gone (the placeholder of a
\* later add, the server's version of a later add that succeeded meanwhile), and
\* a later add whose create succeeds after that rollback finds no placeholder and
\* leaves the list as the rollback made it
C22_RollbackClobbersConcurrent ==
    /\ (last.kind = "settleFail" /\ last.op \in SingleOps) =>
          /\ allTasks = last.snapshot
          /\ \A m \in inflight :
                (m.n > last.n /\ m.op = "add") => m.id \notin IdsOf(allTasks)
          /\ \A k \in (last.n + 1)..MaxOps : ServerId(k) \notin IdsOf(allTasks)
    /\ (last.kind = "settleOk" /\ last.op = "add" /\ last.id \notin IdsOf(last.before)) =>
          allTasks = last.before

\* the second operation, an add, succeeds after the first one's rollback removed
\* its placeholder; the list has not arrived, so nothing else removed it
C22_Witness ==
    /\ last.kind = "settleOk" /\ last.op = "add" /\ last.n = 2
    /\ IsObject(last.err.data)
    /\ initPc = "listing"
    /\ provider = "api"
    /\ last.id \notin IdsOf(last.before)
    /\ allTasks = <<>>
    /\ inflight = {}

\* the server's answer to the create of the add that just succeeded, normalized
ServerVersion == normalizeTodo(last.err.data, last.cBefore).todo

CreateSucceeded ==
    last.kind = "settleOk" /\ last.op = "add" /\ IsObject(last.err.data)

\* C23: in remote mode, whenever add's create call succeeds and returns a task
\* object, the canonical list afterwards holds the server's normalized
\* representation at the position of the placeholder and holds no task with the
\* placeholder's id, whatever the interleaving with the list load and with other
\* mutations
C23_CreateSuccessReconciles ==
    CreateSucceeded =>
        /\ last.id \notin IdsOf(allTasks)
        /\ \E i \in 1..Len(allTasks) :
              /\ allTasks[i] = ServerVersion
              /\ i <= Len(last.before) /\ last.before[i].id = last.id

\* C23 (amended): when the create call succeeds and returns a task object, a
\* placeholder that is still in the canonical list is replaced in place by the
\* server's normalized representation and every other task is left alone; when
\* the placeholder is no longer there (the list load or another mutation's
\* rollback replaced the list), the list is left as it is and does not get the
\* server's representation
C23_ReconcilesPlaceholderIfPresent ==
    CreateSucceeded =>
        IF last.id \in IdsOf(last.before)
        THEN /\ Len(allTasks) = Len(last.before)
             /\ \A i \in 1..Len(allTasks) :
                   allTasks[i] = IF last.before[i].id = last.id THEN ServerVersion
                                 ELSE last.before[i]
             /\ last.id \notin IdsOf(allTasks)
        ELSE allTasks = last.before

\* the first add succeeds while the second add's placeholder is in front of it
C23_Witness ==
    /\ CreateSucceeded
    /\ last.n = 1
    /\ Len(allTasks) = 2
    /\ last.before[2].id = last.id
    /\ allTasks[2].id = ServerId(1)
    /\ allTasks[1] = last.before[1]

\* C24: when the session starts in remote mode and the initial list() call fails
\* with a rejected error, the failure changes neither the mode (it stays remote)
\* nor the canonical list (it stays as it was, empty unless a task was added
\* meanwhile), init()'s promise resolves, and list() is not called again
C24_InitRejectedKeepsRemote ==
    /\ []( (last.kind = "initFail" /\ IsRejected(last.err)) =>
              /\ last.provBefore = "api" => provider = "api"
              /\ provider = last.provBefore
              /\ allTasks = last.before
              /\ last.promise = "resolved"
              /\ last.calls = {}
              /\ initPc = "done" )
    /\ [][initPc = "done" => initPc' = "done"]_vars

C24_Witness ==
    /\ last.kind = "initFail" /\ IsRejected(last.err)
    /\ last.err.status = 404
    /\ provider = "api" /\ rProvider = "api"
    /\ allTasks = <<>>
    /\ initPc = "done"
    /\ nOps = 0

\* C25: in remote mode clearCompleted() issues one remote delete for each task
\* its optimistic step removes from the canonical list and for no other id, also
\* when the list changed since the last render
C25_ClearDeletesWhatItRemoves ==
    (last.kind = "call" /\ last.op = "clear" /\ last.rProvBefore = "api") =>
        {c.id : c \in last.calls} = IdsOf(last.before) \ IdsOf(allTasks)

\* the persist step has run for the current list and mode: the last render
\* committed them
Persisted == rProvider = provider /\ rAllTasks = allTasks

\* C26: whenever the mode is local and storage is available, once the persist
\* step has followed the last change of the canonical list or of the mode, the
\* stored list equals the canonical list; in particular after a demotion caused
\* by a failed mutation the stored list is the rolled-back list
C26_StoredEqualsCanonical ==
    /\ (provider = "local" /\ storageOk /\ Persisted) =>
          /\ stored.raw = "json"
          /\ LogicalContent(stored) = allTasks
    /\ (provider = "local" /\ storageOk /\ Persisted
           /\ last.kind = "settleFail" /\ last.op \in SingleOps) =>
          LogicalContent(stored) = last.snapshot

\* a toggle failed with a network/server error after the list had arrived: the
\* list that came from the backend is rolled back to and is now what storage holds
C26_Witness ==
    /\ last.kind = "settleFail" /\ last.op = "toggle" /\ IsTransient(last.err)
    /\ last.provBefore = "api"
    /\ provider = "local" /\ storageOk /\ Persisted
    /\ Len(allTasks) = 3
    /\ LogicalContent(stored) = allTasks
    /\ "srv_a" \in IdsOf(LogicalContent(stored))

Mutations == {"add", "toggle", "update", "delete", "clear"}

\* C27: no mutation completes with an error: whatever the backend's outcome
\* (success, rejected, transient, client-usage), the promise the operation
\* returned is never rejected, and it is resolved once the operation returned
\* early, ran in local mode, or had its last remote call settled
C27_MutationsNeverReject ==
    last.op \in Mutations =>
        /\ last.promise # "rejected"
        /\ last.kind = "noop" => last.promise = "resolved"
        /\ (last.kind = "call" /\ last.rProvBefore = "local") => last.promise = "resolved"
        /\ (last.kind \in {"settleOk", "settleFail"} /\ last.calls = {})
              => last.promise = "resolved"
        /\ (last.kind \in {"settleOk", "settleFail"} /\ last.op \in SingleOps)
              => last.calls = {}

\* an update was refused by the backend with 404
C27_Witness ==
    /\ last.kind = "settleFail" /\ last.op = "update"
    /\ IsRejected(last.err) /\ last.err.status = 404
    /\ last.promise = "resolved"
    /\ provider = "api"

\* the operation returned before touching anything
WasNoop ==
    /\ last.kind = "noop"
    /\ allTasks = last.before
    /\ provider = last.provBefore
    /\ last.calls = {}
    /\ \A m \in inflight : m.n # last.n

\* C28: toggle, update and delete called with a missing id, and update called
\* with missing or non-object fields, leave the canonical list and the mode
\* unchanged and issue no backend call
C28_MissingArgumentsAreNoops ==
    /\ (last.kind \in {"noop", "call"} /\ last.op \in {"toggle", "update", "delete"}
           /\ last.id = NoId) => WasNoop
    /\ (last.kind \in {"noop", "call"} /\ last.op = "update"
           /\ (last.arg = JsNull \/ "jsstring" \in DOMAIN last.arg)) => WasNoop

\* update of a listed task with a string in place of the fields, in remote mode
C28_Witness ==
    /\ last.kind = "noop" /\ last.op = "update"
    /\ last.id = "srv_b"
    /\ last.arg = JsString(<<"b">>)
    /\ last.rProvBefore = "api"
    /\ Len(allTasks) = 3
    /\ inflight = {}

\* the tasks of a that are still in b (by id) come in b in the order they had in a
OrderKept(a, b) ==
    \A i, j \in 1..Len(a) : \A k, l \in 1..Len(b) :
        (i < j /\ a[i].id = b[k].id /\ a[j].id = b[l].id) => k < l

\* C29: the canonical list keeps insertion order, newest first: add puts the new
\* task at index 1 in front of the unchanged rest; toggle and update keep every
\* position; delete, clearCompleted and rollback keep the relative order of the
\* tasks that remain; create-success reconciliation changes no position
C29_OrderPreserved ==
    /\ (last.kind = "call" /\ last.op = "add") =>
          /\ allTasks # <<>> /\ allTasks[1].id = last.id
          /\ Tail(allTasks) = last.before
    /\ (last.kind = "call" /\ last.op \in {"toggle", "update"}) =>
          IdSeq(allTasks) = IdSeq(last.before)
    /\ (last.kind = "call" /\ last.op \in {"delete", "clear"}) =>
          /\ OrderKept(last.before, allTasks)
          /\ IdsOf(allTasks) \subseteq IdsOf(last.before)
    /\ (last.kind = "settleOk" /\ last.op = "add") =>
          /\ Len(allTasks) = Len(last.before)
          /\ \A i \in 1..Len(allTasks) :
                last.before[i].id # last.id => allTasks[i].id = last.before[i].id
    /\ (last.kind = "settleFail" /\ last.op \in SingleOps) =>
          OrderKept(last.before, allTasks)

\* a failed delete of the middle task puts it back between its neighbours
C29_Witness ==
    /\ last.kind = "settleFail" /\ last.op = "delete" /\ last.id = "srv_b"
    /\ IdSeq(last.before) = <<"srv_a", "srv_c">>
    /\ IdSeq(allTasks) = <<"srv_a", "srv_b", "srv_c">>

\* C30: while the mode is remote the Storage Adapter's save is not invoked: no
\* step that leaves the mode remote changes the stored list, and no mutation,
\* rollback or list load writes it in any mode (only the persist effect writes)
C30_NoSaveInRemoteMode ==
    [][ /\ provider' = "api" => stored' = stored
        /\ last' # last => stored' = stored ]_vars

\* in remote mode a task was added to the list the backend sent and the result
\* was rendered; storage still holds what it held at the start
C30_Witness ==
    /\ provider = "api" /\ rProvider = "api"
    /\ rAllTasks = allTasks
    /\ Len(allTasks) = 4
    /\ last.op = "add" /\ last.kind = "settleOk"
    /\ storageOk
    /\ stored = RawJson(JsArray(StoredList))

\* the row's save ran (Enter or blur in the edit field)
Saved == itemLast.kind \in {"enter", "blur"}

\* C31: inline editing invokes onUpdate only on save (Enter or blur) with a draft
\* that trims to non-empty and differs from the current title, and passes the
\* trimmed draft; Escape, an empty draft or an unchanged draft end editing with
\* the draft reset to the current title and without invoking onUpdate
C31_InlineEditSavesOnlyChanges ==
    /\ itemLast.called =>
          /\ Saved
          /\ ~IsBlank(itemLast.draftBefore)
          /\ itemLast.draftBefore # itemLast.title
          /\ onUpdateCalls # <<>>
          /\ IsTrimOf(onUpdateCalls[Len(onUpdateCalls)], itemLast.draftBefore)
    /\ (itemLast.kind = "escape"
          \/ (Saved /\ (IsBlank(itemLast.draftBefore)
                          \/ itemLast.draftBefore = itemLast.title))) =>
          /\ ~itemLast.called
          /\ ~editing
          /\ draft = itemTitle

====
